---- MODULE Spec2Model ----
(***************************************************************************)
(* Model of mkdmfs (src/src/main.rs): the sequential pipeline of main()    *)
(* that loads banners, system services and guest OS images into a dmfs     *)
(* manifest, encodes it and writes the image file.                         *)
(*                                                                         *)
(* Text is modelled as a sequence of pieces (short strings); a path is a   *)
(* sequence of segments, and a segment is a text.  An Option<T> is a       *)
(* sequence of length 0 (None) or 1 (Some).                                *)
(***************************************************************************)
EXTENDS Integers, Sequences, FiniteSets, TLC

VARIABLES
    target_arch,        \* settings.target_arch : Option<text>
    quality,            \* settings.quality : Option<string>
    no_downloads,       \* settings.no_downloads
    no_services,        \* settings.no_services
    no_guests,          \* settings.no_guests
    banners,            \* settings.config.banners
    services_to_include, \* the list of services to include (line 337), once bound
    available_services, \* the table of defined services (line 334), once bound
    targets_guests,     \* the target's list of guests (line 396), once bound
    available_guests,   \* the table of defined guests (line 399), once bound
    pc,                 \* position of main()
    manifest,           \* the Manifest: sequence of ManifestObject
    svc_i,              \* position of the loop over services_to_include
    guest_i,            \* position of the loop over targets_guests
    data,               \* result of response.bytes().await
    guest_file,         \* host file system: what is at each guest's resolved path
    outfile,            \* what this run has done to the output image file
    io,                 \* the file-system or network operation of the last step, if any
    fetches,            \* number of reqwest::get calls per guest label in this run
    mkdirs,             \* guest labels whose directory create_dir_all ensured in this run
    diag,               \* what fatal_error printed, if it was called
    saved,              \* guest labels that an earlier run fetched and saved completely
    run                 \* number of the current invocation of the program

vars == <<target_arch, quality, no_downloads, no_services, no_guests, banners, services_to_include, available_services,
          targets_guests, available_guests,
          pc, manifest, svc_i, guest_i, data, guest_file, outfile, io,
          fetches, mkdirs, diag, saved, run>>

settingsVars == <<target_arch, quality, no_downloads, no_services, no_guests>>

----------------------------------------------------------------------------
(* Bounds *)

MaxPieces == 2      \* pieces in a target string of the base-architecture check
MaxInclude == 2     \* length of services.include
MaxGuests == 2      \* length of a target's guests list
MaxRuns == 2        \* invocations of the program on the same host file system

----------------------------------------------------------------------------
(* Option, text and path helpers *)

None == <<>>

Some(x) == <<x>>

Seg(s) == <<s>>

Last(s) == s[Len(s)]

SeqsUpTo(S, n) == UNION {[1..k -> S] : k \in 0..n}

\* the characters of a piece
PieceChars(p) ==
    CASE p = "riscv"   -> <<"r","i","s","c","v">>
      [] p = "aarch64" -> <<"a","a","r","c","h","6","4">>
      [] p = "arm"     -> <<"a","r","m">>
      [] p = "powerpc" -> <<"p","o","w","e","r","p","c">>
      [] p = "x86"     -> <<"x","8","6">>
      [] p = "_64"     -> <<"_","6","4">>
      [] p = "64"      -> <<"6","4">>
      [] p = "64gc"    -> <<"6","4","g","c">>
      [] p = "a"       -> <<"a">>
      [] p = "rm"      -> <<"r","m">>
      [] p = "mips"    -> <<"m","i","p","s">>

RECURSIVE Chars(_)
Chars(t) == IF t = <<>> THEN <<>> ELSE PieceChars(Head(t)) \o Chars(Tail(t))

----------------------------------------------------------------------------
(* get_base_arch: the regular expression                                   *)
(* (?P<arch>riscv|aarch64|arm|powerpc64|x86_64){1}, searched unanchored;   *)
(* the leftmost match wins, alternatives tried in their written order.     *)

ArchNames == <<"riscv", "aarch64", "arm", "powerpc64", "x86_64">>

ArchChars ==
    << <<"r","i","s","c","v">>,
       <<"a","a","r","c","h","6","4">>,
       <<"a","r","m">>,
       <<"p","o","w","e","r","p","c","6","4">>,
       <<"x","8","6","_","6","4">> >>

MatchAt(cs, i, tok) ==
    /\ i + Len(tok) - 1 <= Len(cs)
    /\ SubSeq(cs, i, i + Len(tok) - 1) = tok

\* a buggy variant: the expression anchored at the start of the string
get_base_arch_anchored(full_target) ==
    LET cs == Chars(full_target)
        alts == {k \in 1..Len(ArchChars) : MatchAt(cs, 1, ArchChars[k])}
    IN  IF alts = {} THEN None
        ELSE Some(ArchNames[CHOOSE k \in alts : \A j \in alts : k <= j])

get_base_arch(full_target) ==
    LET cs == Chars(full_target)
        starts == {i \in 1..Len(cs) : \E k \in 1..Len(ArchChars) : MatchAt(cs, i, ArchChars[k])}
    IN  IF starts = {} THEN None
        ELSE LET i == CHOOSE s \in starts : \A t \in starts : s <= t
                 alts == {k \in 1..Len(ArchChars) : MatchAt(cs, i, ArchChars[k])}
             IN  Some(ArchNames[CHOOSE k \in alts : \A j \in alts : k <= j])

----------------------------------------------------------------------------
(* Inputs *)

ArchPieces == {"riscv", "aarch64", "arm", "powerpc", "x86", "_64", "64", "a", "rm", "mips"}

\* target strings of the base-architecture check
ArchStrings == SeqsUpTo(ArchPieces, MaxPieces) \ {<<>>}

\* target strings of the whole pipeline
TargetArchs == {<<"riscv", "64gc">>, <<"mips", "64">>}

Qualities == {"debug"}

ServiceNames == {"console", "gooey"}

GuestLabels == {"linux", "bsd"}

\* [banners]: path and welcome are both optional
BannerConfigs ==
    {None} \cup {Some([path |-> p, welcome |-> w]) :
                    p \in {None, Some("banners")}, w \in {None, Some("welcome.txt")}}

\* [services]: include is optional
ServicesConfigs ==
    {None, Some([include |-> None])}
        \cup {Some([include |-> Some(l)]) : l \in SeqsUpTo(ServiceNames, MaxInclude)}

\* [service.<name>]: "gooey" is defined only together with "console"
ServiceTables ==
    {None} \cup {Some([n \in D |-> [path |-> n]]) : D \in {{"console"}, {"console", "gooey"}}}

\* [target.<arch>]: only the riscv target may have an entry
TargetTables ==
    {None, Some(<<>>)}
        \cup {Some([t \in {<<"riscv", "64gc">>} |-> [guests |-> g]]) :
                 g \in {None} \cup {Some(l) : l \in SeqsUpTo(GuestLabels, MaxGuests)}}

\* [guest.<label>]: "linux" has a URL, "bsd" has none
GuestTables ==
    {None,
     Some([l \in {"linux"} |-> [path |-> "guests", url |-> Some("https://linux")]]),
     Some([l \in {"linux", "bsd"} |->
              [path |-> "guests",
               url |-> IF l = "linux" THEN Some("https://linux") ELSE None]])}

\* what a path can name in the host file system
Entries == {"absent", "file", "dir"}

NoIo == [op |-> "none", path |-> <<>>, entry |-> "none", ok |-> TRUE, arch |-> "none"]

NoDiag == [text |-> "", args |-> <<>>, at |-> ""]

----------------------------------------------------------------------------
(* fatal_error: print the message and exit(1) *)

\* a slip: the message is printed but the process does not exit, and main()
\* goes on to write the image
fatal_error_no_exit(text, args) ==
    /\ pc' = "output"
    /\ diag' = [text |-> text, args |-> args, at |-> pc]

fatal_error(text, args) ==
    /\ pc' = "aborted"
    /\ diag' = [text |-> text, args |-> args, at |-> pc]

\* load_file succeeds when File::open and read_to_end both succeed
load_file(entry) == entry = "file"

\* a slip: the check never finds anything
exists_never(entry) == FALSE

\* Path::exists
exists(entry) == entry # "absent"

\* manifest.add
add(m, object) == Append(m, object)

ManifestObject(kind, name, bytes, src) ==
    [kind |-> kind, name |-> name, data |-> bytes, src |-> src]

----------------------------------------------------------------------------
(* The order of the blocks of main(): the two banners, the services, the   *)
(* guests, and the encoding of the image.                                  *)

\* a slip in the order: the guests block placed before the services block
Phases_guests_first == <<"banner_arch", "banner_welcome", "guests", "services", "encode">>

Phases == <<"banner_arch", "banner_welcome", "services", "guests", "encode">>

\* the block that follows block p
After(p) == Phases[(CHOOSE i \in 1..Len(Phases) : Phases[i] = p) + 1]

----------------------------------------------------------------------------
(* Initial state: main() has built Settings from the command line and      *)
(* created the empty manifest.  A section of the configuration document is *)
(* drawn when main() moves it out of settings.config.                      *)

Init ==
    /\ target_arch \in {None} \cup {Some(t) : t \in TargetArchs}
    /\ quality \in {None} \cup {Some(q) : q \in Qualities}
    /\ no_downloads \in BOOLEAN
    /\ no_services \in BOOLEAN
    /\ no_guests \in BOOLEAN
    /\ banners = None
    /\ services_to_include = <<>>
    /\ available_services = <<>>
    /\ targets_guests = <<>>
    /\ available_guests = <<>>
    /\ pc = "banners"
    /\ manifest = <<>>
    /\ svc_i = 1
    /\ guest_i = 1
    /\ data = "none"
    /\ guest_file \in [GuestLabels -> {"absent", "user"}]
    /\ outfile = "untouched"
    /\ io = NoIo
    /\ fetches = [l \in GuestLabels |-> 0]
    /\ mkdirs = {}
    /\ diag = NoDiag
    /\ saved = {}
    /\ run = 1

----------------------------------------------------------------------------
(* Banners *)

\* if let Some(banners) = settings.config.banners
BannersBegin ==
    /\ pc = "banners"
    /\ \E b \in BannerConfigs : banners' = b
    /\ pc' = Phases[1]
    /\ UNCHANGED <<settingsVars, services_to_include, available_services,
                   targets_guests, available_guests, manifest, svc_i,
                   guest_i, data, guest_file, outfile, io, fetches, mkdirs, diag,
                   saved, run>>

\* the path of the architecture-specific banner: base/<banner_dir>/<base_arch>.txt
ArchBannerPath(banner_dir, base_arch) == <<Seg(banner_dir), <<base_arch, ".txt">> >>

\* does the architecture-specific banner apply at all?
ArchBannerWanted ==
    /\ banners # None
    /\ banners[1].path # None
    /\ target_arch # None
    /\ get_base_arch(target_arch[1]) # None

\* the architecture-specific banner, if a base architecture is recognised
ArchBanner ==
    /\ pc = "banner_arch"
    /\ IF ArchBannerWanted
       THEN LET base_arch == get_base_arch(target_arch[1])[1]
                p == ArchBannerPath(banners[1].path[1], base_arch)
            IN  \E entry \in Entries :
                  /\ io' = [op |-> "load_banner", path |-> p, entry |-> entry,
                           ok |-> load_file(entry), arch |-> "none"]
                  /\ IF load_file(entry)
                     THEN /\ manifest' = add(manifest,
                                 ManifestObject("BootMsg", Last(p), "file", 1))
                          /\ pc' = After("banner_arch")
                          /\ UNCHANGED diag
                     ELSE /\ fatal_error("Can't open file {}: {}", <<p>>)
                          /\ UNCHANGED manifest
       ELSE /\ pc' = After("banner_arch")
            /\ io' = NoIo
            /\ UNCHANGED <<manifest, diag>>
    /\ UNCHANGED <<settingsVars, banners, services_to_include, available_services,
                   targets_guests, available_guests, svc_i,
                   guest_i, data, guest_file, outfile, fetches, mkdirs, saved, run>>

\* the generic welcome banner, if defined
WelcomeBanner ==
    /\ pc = "banner_welcome"
    /\ IF banners # None /\ banners[1].welcome # None
       THEN LET p == <<Seg(banners[1].welcome[1])>>
            IN  \E entry \in Entries :
                  /\ io' = [op |-> "load_banner", path |-> p, entry |-> entry,
                           ok |-> load_file(entry), arch |-> "none"]
                  /\ IF load_file(entry)
                     THEN /\ manifest' = add(manifest,
                                 ManifestObject("BootMsg", Last(p), "file", 2))
                          /\ pc' = After("banner_welcome")
                          /\ UNCHANGED diag
                     ELSE /\ fatal_error("Can't open file {}: {}", <<p>>)
                          /\ UNCHANGED manifest
       ELSE /\ pc' = After("banner_welcome")
            /\ io' = NoIo
            /\ UNCHANGED <<manifest, diag>>
    /\ UNCHANGED <<settingsVars, banners, services_to_include, available_services,
                   targets_guests, available_guests, svc_i,
                   guest_i, data, guest_file, outfile, fetches, mkdirs, saved, run>>

----------------------------------------------------------------------------
(* System services *)

\* the list the loop of lines 340-381 runs through: empty unless services,
\* service and services.include are all present and services are not skipped
ServicesToInclude(services, service) ==
    IF /\ services # None
       /\ ~no_services
       /\ service # None
       /\ services[1].include # None
    THEN services[1].include[1]
    ELSE <<>>

\* if let (Some(services), false) = (settings.config.services, settings.no_services),
\* down to the binding of services_to_include; the table of services is bound
\* only inside the first if
ServicesBegin ==
    /\ pc = "services"
    /\ \E services \in ServicesConfigs, service \in ServiceTables :
         /\ services_to_include' = ServicesToInclude(services, service)
         /\ available_services' =
                IF services # None /\ ~no_services /\ service # None
                THEN service[1] ELSE <<>>
    /\ svc_i' = 1
    /\ io' = NoIo
    /\ pc' = IF services_to_include' = <<>> THEN After("services") ELSE "service_loop"
    /\ UNCHANGED <<settingsVars, banners, targets_guests, available_guests, manifest,
                   guest_i, data, guest_file, outfile, fetches, mkdirs, diag, saved, run>>

\* the path of a service's binary, given what is at target/<arch>
ServicePath(service_path, service_name, ta, arch_entry, q) ==
    LET p0 == <<Seg(service_path), Seg("target")>>
        p1 == IF ta # None /\ exists(arch_entry) THEN Append(p0, ta[1]) ELSE p0
    IN  IF q # None THEN p1 \o <<Seg(q[1]), Seg(service_name)>> ELSE p1

\* what the host file system can hold at target/<arch>: nothing is looked up
\* when no target architecture is set
ArchEntries(ta) == IF ta = None THEN {"none"} ELSE Entries

\* what the resolved path can name, given what is at target/<arch>
PathEntries(ta, arch_entry, q) ==
    IF ta # None /\ exists(arch_entry)
    THEN IF q = None THEN {arch_entry}
         ELSE IF arch_entry = "file" THEN {"absent"} ELSE Entries
    ELSE Entries

\* one iteration of the loop over services_to_include
ServiceStep ==
    /\ pc = "service_loop"
    /\ svc_i <= Len(services_to_include)
    /\ LET service_name == services_to_include[svc_i]
           after == IF svc_i + 1 > Len(services_to_include)
                    THEN After("services") ELSE "service_loop"
       IN  IF service_name \in DOMAIN available_services
           THEN \E arch_entry \in ArchEntries(target_arch) :
                \E entry \in PathEntries(target_arch, arch_entry, quality) :
                  LET p == ServicePath(available_services[service_name].path, service_name,
                                       target_arch, arch_entry, quality)
                  IN  /\ io' = [op |-> "load_service", path |-> p, entry |-> entry,
                                ok |-> load_file(entry), arch |-> arch_entry]
                      /\ IF load_file(entry)
                         THEN /\ manifest' = add(manifest,
                                     ManifestObject("SystemService", Seg(service_name),
                                                    "file", svc_i))
                              /\ svc_i' = svc_i + 1
                              /\ pc' = after
                              /\ UNCHANGED diag
                         ELSE /\ fatal_error("Can't open file {}: {}", <<p>>)
                              /\ UNCHANGED <<manifest, svc_i>>
           ELSE /\ svc_i' = svc_i + 1
                /\ pc' = after
                /\ io' = [op |-> "skip_service", path |-> <<>>, entry |-> "none",
                          ok |-> TRUE, arch |-> "none"]
                /\ UNCHANGED <<manifest, diag>>
    /\ UNCHANGED <<settingsVars, banners, services_to_include, available_services,
                   targets_guests, available_guests, guest_i,
                   data, guest_file, outfile, fetches, mkdirs, saved, run>>

----------------------------------------------------------------------------
(* Guest OSes *)

\* a slip: the guests block does not look at --skip-guests
TargetsGuests_flag_ignored(target) ==
    IF /\ target_arch # None
       /\ target # None
       /\ target_arch[1] \in DOMAIN target[1]
       /\ target[1][target_arch[1]].guests # None
    THEN target[1][target_arch[1]].guests[1]
    ELSE <<>>

\* the list the loop of lines 406-479 runs through: empty unless a target
\* architecture is set, guests are not skipped, and the target has an entry
\* with a guests list
TargetsGuests(target) ==
    IF /\ target_arch # None
       /\ ~no_guests
       /\ target # None
       /\ target_arch[1] \in DOMAIN target[1]
       /\ target[1][target_arch[1]].guests # None
    THEN target[1][target_arch[1]].guests[1]
    ELSE <<>>

\* a slip: the label is never pushed onto the path
GuestPath_no_label(g, label) == <<Seg(g.path)>>

\* base/<guest.path>/<label>
GuestPath(g, label) == <<Seg(g.path), Seg(label)>>

\* the guest the loop is at
CurrentGuest == targets_guests[guest_i]

\* if let (Some(target_arch), false) = (&settings.target_arch, settings.no_guests),
\* down to the binding of available_guests: settings.config.guest, or an
\* empty table
GuestsBegin ==
    /\ pc = "guests"
    /\ \E target \in TargetTables, guest \in GuestTables :
         /\ targets_guests' = TargetsGuests(target)
         /\ available_guests' =
                IF TargetsGuests(target) # <<>> /\ guest # None THEN guest[1] ELSE <<>>
    /\ guest_i' = 1
    /\ io' = NoIo
    /\ pc' = IF targets_guests' = <<>> THEN After("guests") ELSE "guest_loop"
    /\ UNCHANGED <<settingsVars, banners, services_to_include, available_services,
                   manifest, svc_i, data, guest_file, outfile, fetches, mkdirs, diag,
                   saved, run>>

\* the head of one iteration: look the guest up, ensure its directory, and
\* decide whether its image has to be fetched
GuestStep ==
    /\ pc = "guest_loop"
    /\ guest_i <= Len(targets_guests)
    /\ LET label == CurrentGuest
       IN  IF label \notin DOMAIN available_guests
           THEN /\ fatal_error("Guest {} required by target architecture {} not defined",
                               << <<Seg(label)>>, <<target_arch[1]>> >>)
                /\ io' = NoIo
                /\ UNCHANGED mkdirs
           ELSE LET g == available_guests[label]
                    path == GuestPath(g, label)
                IN  \E made \in IF exists(guest_file[label]) THEN {TRUE} ELSE BOOLEAN :
                      IF ~made
                      THEN /\ fatal_error("Can't ensure directory {} exists for guest {} ({})",
                                          << <<Seg(g.path)>>, <<Seg(label)>> >>)
                           /\ io' = [op |-> "create_dir_all", path |-> <<Seg(g.path)>>,
                                     entry |-> "none", ok |-> FALSE, arch |-> "none"]
                           /\ UNCHANGED mkdirs
                      ELSE /\ mkdirs' = mkdirs \cup {label}
                           /\ io' = [op |-> "exists", path |-> path,
                                     entry |-> guest_file[label],
                                     ok |-> exists(guest_file[label]), arch |-> "none"]
                           /\ IF exists(guest_file[label])
                              THEN pc' = "include" /\ UNCHANGED diag
                              ELSE IF g.url # None /\ ~no_downloads
                                   THEN pc' = "fetch" /\ UNCHANGED diag
                                   ELSE fatal_error("Can't find guest OS file {}", <<path>>)
    /\ UNCHANGED <<settingsVars, banners, services_to_include, available_services,
                   targets_guests, available_guests, manifest,
                   svc_i, guest_i, data, guest_file, outfile, fetches, saved, run>>

\* reqwest::get(url).await, and on success response.bytes().await
GuestFetch ==
    /\ pc = "fetch"
    /\ LET label == CurrentGuest
           g == available_guests[label]
       IN  /\ fetches' = [fetches EXCEPT ![label] = @ + 1]
           /\ \E got \in BOOLEAN :
                /\ io' = [op |-> "get", path |-> <<Seg(g.url[1])>>, entry |-> "none",
                          ok |-> got, arch |-> "none"]
                /\ IF got
                   THEN /\ \E body \in {"ok", "err"} : data' = body
                        /\ pc' = "save"
                        /\ UNCHANGED diag
                   ELSE /\ fatal_error("Can't fetch {} for {}: {}",
                                       << <<Seg(g.url[1])>>, <<Seg(label)>> >>)
                        /\ UNCHANGED data
    /\ UNCHANGED <<settingsVars, banners, services_to_include, available_services,
                   targets_guests, available_guests, manifest,
                   svc_i, guest_i, guest_file, outfile, mkdirs, saved, run>>

\* a slip: the file is created but the body is never copied into it
Written_nothing(copied) == "partial"

\* what io::copy leaves at the path: the whole body, or a truncated file
Written(copied) == IF copied THEN "fetched" ELSE "partial"

\* File::create(&path), data.as_ref().unwrap(), io::copy
GuestSave ==
    /\ pc = "save"
    /\ LET label == CurrentGuest
           path == GuestPath(available_guests[label], label)
       IN  \E created \in BOOLEAN :
             IF ~created
             THEN /\ fatal_error("Can't create {} for {}: {}", <<path, <<Seg(label)>> >>)
                  /\ io' = [op |-> "create", path |-> path, entry |-> "absent",
                            ok |-> FALSE, arch |-> "none"]
                  /\ UNCHANGED guest_file
             ELSE IF data = "err"
                  THEN \* unwrap() of an Err panics, after the file was created
                       /\ guest_file' = [guest_file EXCEPT ![label] = "partial"]
                       /\ pc' = "panicked"
                       /\ io' = [op |-> "unwrap", path |-> path, entry |-> "partial",
                                 ok |-> FALSE, arch |-> "none"]
                       /\ diag' = [text |-> "panic", args |-> <<>>, at |-> pc]
                  ELSE \E copied \in BOOLEAN :
                         /\ io' = [op |-> "copy", path |-> path, entry |-> Written(copied),
                                   ok |-> copied, arch |-> "none"]
                         /\ guest_file' = [guest_file EXCEPT ![label] = Written(copied)]
                         /\ IF copied
                            THEN /\ pc' = "include"
                                 /\ UNCHANGED diag
                            ELSE fatal_error("Failed to write {} for {}: {}",
                                             <<path, <<Seg(label)>> >>)
    /\ data' = "none"
    /\ UNCHANGED <<settingsVars, banners, services_to_include, available_services,
                   targets_guests, available_guests, manifest,
                   svc_i, guest_i, outfile, fetches, mkdirs, saved, run>>

\* load_file(&path) and manifest.add of the GuestOS object
GuestInclude ==
    /\ pc = "include"
    /\ LET label == CurrentGuest
           path == GuestPath(available_guests[label], label)
       IN  \E readable \in BOOLEAN :
             /\ io' = [op |-> "load_guest", path |-> path, entry |-> guest_file[label],
                       ok |-> readable, arch |-> "none"]
             /\ IF readable
                THEN /\ manifest' = add(manifest,
                            ManifestObject("GuestOS", Seg(label),
                                           guest_file[label], guest_i))
                     /\ guest_i' = guest_i + 1
                     /\ pc' = IF guest_i + 1 > Len(targets_guests)
                              THEN After("guests") ELSE "guest_loop"
                     /\ UNCHANGED diag
                ELSE /\ fatal_error("Couldn't read file {}: {}", <<path>>)
                     /\ UNCHANGED <<manifest, guest_i>>
    /\ UNCHANGED <<settingsVars, banners, services_to_include, available_services,
                   targets_guests, available_guests, svc_i,
                   data, guest_file, outfile, fetches, mkdirs, saved, run>>

----------------------------------------------------------------------------
(* Encoding and output *)

\* manifest.to_image()
Encode ==
    /\ pc = "encode"
    /\ \E encoded \in BOOLEAN :
         IF encoded
         THEN /\ pc' = "output"
              /\ UNCHANGED diag
         ELSE fatal_error("Failed to generate dmfs image: {:?}", <<>>)
    /\ io' = NoIo
    /\ UNCHANGED <<settingsVars, banners, services_to_include, available_services,
                   targets_guests, available_guests, manifest,
                   svc_i, guest_i, data, guest_file, outfile, fetches, mkdirs,
                   saved, run>>

\* settings.output_filename, read here for the first time
OutputFilenames == {None, Some("dmfs.img")}

\* File::create(&of) and file.write_all(bytes)
WriteImage ==
    /\ pc = "output"
    /\ \E output_filename \in OutputFilenames :
       IF output_filename = None
       THEN /\ fatal_error("No output filename specified", <<>>)
            /\ io' = NoIo
            /\ UNCHANGED outfile
       ELSE LET of == <<Seg(output_filename[1])>>
            IN  \E created \in BOOLEAN :
                  IF ~created
                  THEN /\ fatal_error("Can't create output file {:?}: {}", <<of>>)
                       /\ io' = [op |-> "create_output", path |-> of, entry |-> "none",
                                 ok |-> FALSE, arch |-> "none"]
                       /\ UNCHANGED outfile
                  ELSE \E written \in BOOLEAN :
                         /\ io' = [op |-> "write_output", path |-> of, entry |-> "none",
                                   ok |-> written, arch |-> "none"]
                         /\ IF written
                            THEN /\ outfile' = "written"
                                 /\ pc' = "done"
                                 /\ UNCHANGED diag
                            ELSE /\ outfile' = "created"
                                 /\ fatal_error("Failed during dmfs image write to file: {}",
                                                <<>>)
    /\ UNCHANGED <<settingsVars, banners, services_to_include, available_services,
                   targets_guests, available_guests, manifest,
                   svc_i, guest_i, data, guest_file, fetches, mkdirs, saved, run>>

----------------------------------------------------------------------------
(* The program is run again on the same host file system, with the same    *)
(* settings: everything in memory starts afresh, the guest files stay.     *)

Terminated == pc \in {"done", "aborted", "panicked"}

Rerun ==
    /\ Terminated
    /\ run < MaxRuns
    /\ run' = run + 1
    /\ saved' = saved \cup {l \in GuestLabels : guest_file[l] = "fetched"}
    /\ banners' = None
    /\ services_to_include' = <<>>
    /\ available_services' = <<>>
    /\ targets_guests' = <<>>
    /\ available_guests' = <<>>
    /\ pc' = "banners"
    /\ manifest' = <<>>
    /\ svc_i' = 1
    /\ guest_i' = 1
    /\ data' = "none"
    /\ outfile' = "untouched"
    /\ io' = NoIo
    /\ fetches' = [l \in GuestLabels |-> 0]
    /\ mkdirs' = {}
    /\ diag' = NoDiag
    /\ UNCHANGED <<settingsVars, guest_file>>

Next ==
    \/ BannersBegin
    \/ ArchBanner
    \/ WelcomeBanner
    \/ ServicesBegin
    \/ ServiceStep
    \/ GuestsBegin
    \/ GuestStep
    \/ GuestFetch
    \/ GuestSave
    \/ GuestInclude
    \/ Encode
    \/ WriteImage
    \/ Rerun

Spec == Init /\ [][Next]_vars

----------------------------------------------------------------------------
(* The banners alone, over many target strings: the specification under    *)
(* which base-architecture extraction is checked.                          *)

InitArch ==
    /\ target_arch \in {Some(t) : t \in ArchStrings}
    /\ quality = None
    /\ no_downloads = FALSE
    /\ no_services = FALSE
    /\ no_guests = FALSE
    /\ banners = None
    /\ services_to_include = <<>>
    /\ available_services = <<>>
    /\ targets_guests = <<>>
    /\ available_guests = <<>>
    /\ pc = "banners"
    /\ manifest = <<>>
    /\ svc_i = 1
    /\ guest_i = 1
    /\ data = "none"
    /\ guest_file = [l \in GuestLabels |-> "absent"]
    /\ outfile = "untouched"
    /\ io = NoIo
    /\ fetches = [l \in GuestLabels |-> 0]
    /\ mkdirs = {}
    /\ diag = NoDiag
    /\ saved = {}
    /\ run = 1

NextArch ==
    \/ BannersBegin
    \/ ArchBanner
    \/ WelcomeBanner

SpecArch == InitArch /\ [][NextArch]_vars

----------------------------------------------------------------------------
(* Helpers of the properties *)

\* the positions of the manifest that hold an object of the given kind,
\* made from the given position of its list
ObjectsOf(kind, src) ==
    {k \in 1..Len(manifest) : manifest[k].kind = kind /\ manifest[k].src = src}

\* the category of an object: architecture banner, welcome banner, service, guest
Category(o) ==
    CASE o.kind = "BootMsg"       -> o.src
      [] o.kind = "SystemService" -> 3
      [] o.kind = "GuestOS"       -> 4

\* does a fatal message's argument list mention the segment?
Names(args, seg) ==
    \E a \in 1..Len(args) : \E k \in 1..Len(args[a]) : args[a][k] = seg

\* the kind and name of every object the configuration makes main() load:
\* the banners that apply, the included services that are defined, the
\* target's guests
ExpectedObjects ==
    LET arch == IF ArchBannerWanted
                THEN <<[kind |-> "BootMsg",
                        name |-> <<get_base_arch(target_arch[1])[1], ".txt">>]>>
                ELSE <<>>
        welcome == IF banners # None /\ banners[1].welcome # None
                   THEN <<[kind |-> "BootMsg", name |-> Seg(banners[1].welcome[1])]>>
                   ELSE <<>>
        defined == SelectSeq(services_to_include,
                             LAMBDA n : n \in DOMAIN available_services)
        svcs == [k \in 1..Len(defined) |->
                    [kind |-> "SystemService", name |-> Seg(defined[k])]]
        gsts == [k \in 1..Len(targets_guests) |->
                    [kind |-> "GuestOS", name |-> Seg(targets_guests[k])]]
    IN  arch \o welcome \o svcs \o gsts

LoadedObjects ==
    [k \in 1..Len(manifest) |-> [kind |-> manifest[k].kind, name |-> manifest[k].name]]

----------------------------------------------------------------------------
\* the manifest is sorted by category and, within the services and the guests,
\* by position in the list; each object carries the name at its position, and
\* each position the loops have passed has its one object (a service, when its
\* name is defined)
C1_InOrder ==
    /\ \A i, j \in 1..Len(manifest) :
         i < j =>
            \/ Category(manifest[i]) < Category(manifest[j])
            \/ /\ Category(manifest[i]) = Category(manifest[j])
               /\ Category(manifest[i]) \in {3, 4}
               /\ manifest[i].src < manifest[j].src
    /\ \A k \in 1..Len(manifest) :
         /\ manifest[k].kind = "SystemService" =>
               manifest[k].name = Seg(services_to_include[manifest[k].src])
         /\ manifest[k].kind = "GuestOS" =>
               manifest[k].name = Seg(targets_guests[manifest[k].src])
    /\ \A i \in 1..Len(services_to_include) :
         (i < svc_i /\ services_to_include[i] \in DOMAIN available_services) =>
            Cardinality(ObjectsOf("SystemService", i)) = 1
    /\ \A i \in 1..Len(targets_guests) :
         i < guest_i => Cardinality(ObjectsOf("GuestOS", i)) = 1

\* a step leaves the manifest alone or appends one object; a new run starts afresh
C1_AppendOnly ==
    \/ manifest' = manifest
    \/ /\ Len(manifest') = Len(manifest) + 1
       /\ SubSeq(manifest', 1, Len(manifest)) = manifest
    \/ /\ Terminated
       /\ run' = run + 1

(* C1: objects are appended in the order architecture banner, welcome      *)
(* banner, services in the order of services.include, guests in the order  *)
(* of the target's guests list; no object of a later category precedes one *)
(* of an earlier category, and until the image is encoded the manifest     *)
(* only grows at its end.                                                  *)
C1_Order == [](C1_InOrder) /\ [][C1_AppendOnly]_vars

C1_Witness ==
    /\ pc = "output"
    /\ Len(manifest) = 6
    /\ manifest[4].name # manifest[3].name
    /\ manifest[6].name # manifest[5].name

----------------------------------------------------------------------------
(* C2: the output file is touched only after every configured object was   *)
(* loaded and to_image returned Ok; a run that aborts in a load, an        *)
(* acquisition step, a configuration-reference check or to_image leaves    *)
(* the output file untouched.                                              *)
C2_OutputOnlyAfterSuccess ==
    /\ outfile # "untouched" =>
          /\ LoadedObjects = ExpectedObjects
          /\ pc = "done" \/ (pc = "aborted" /\ diag.at = "output")
    /\ pc = "done" => outfile = "written"
    /\ (pc \in {"aborted", "panicked"} /\ diag.at # "output") => outfile = "untouched"

C2_Witness ==
    /\ outfile = "written"
    /\ \E i, j, k \in 1..Len(manifest) :
         /\ manifest[i].kind = "BootMsg"
         /\ manifest[j].kind = "SystemService"
         /\ manifest[k].kind = "GuestOS"

----------------------------------------------------------------------------
(* C3: a listed guest whose path is absent, with a URL and downloads       *)
(* allowed, is fetched exactly once, and the fetched bytes are at its path *)
(* before the path is read and before its GuestOS object is appended.      *)
C3_FetchOnceThenSave ==
    /\ \A l \in GuestLabels : fetches[l] <= 1
    /\ (/\ io.op = "exists"
        /\ ~io.ok
        /\ available_guests[CurrentGuest].url # None
        /\ ~no_downloads) => pc = "fetch"
    /\ pc = "fetch" => fetches[CurrentGuest] = 0 /\ guest_file[CurrentGuest] = "absent"
    /\ pc = "save" => fetches[CurrentGuest] = 1 /\ guest_file[CurrentGuest] = "absent"
    /\ \A l \in GuestLabels :
         fetches[l] = 1 =>
            /\ (pc = "include" /\ CurrentGuest = l) => guest_file[l] = "fetched"
            /\ \A k \in 1..Len(manifest) :
                 (manifest[k].kind = "GuestOS" /\ manifest[k].name = Seg(l)) =>
                     guest_file[l] = "fetched" /\ manifest[k].data = "fetched"

C3_Witness ==
    \E k \in 1..Len(manifest) :
      /\ manifest[k].kind = "GuestOS"
      /\ manifest[k].data = "fetched"
      /\ fetches[manifest[k].name[1]] = 1

----------------------------------------------------------------------------
(* C4: a listed guest whose path is absent, with no URL or with downloads  *)
(* disabled, ends the build in a fatal error that names the guest's label  *)
(* and path; nothing is fetched for it and no GuestOS object is appended   *)
(* for it.                                                                 *)
C4_MissingGuestFatal ==
    /\ (/\ io.op = "exists"
        /\ ~io.ok
        /\ (available_guests[CurrentGuest].url = None \/ no_downloads)) =>
          /\ pc = "aborted"
          /\ diag.text = "Can't find guest OS file {}"
          /\ \E a \in 1..Len(diag.args) : diag.args[a] = io.path
          /\ Names(diag.args, Seg(CurrentGuest))
          /\ fetches[CurrentGuest] = 0
          /\ ObjectsOf("GuestOS", guest_i) = {}
    /\ \A l \in GuestLabels :
         fetches[l] > 0 =>
            /\ ~no_downloads
            /\ l \in DOMAIN available_guests
            /\ available_guests[l].url # None

C4_Witness ==
    /\ pc = "aborted"
    /\ diag.text = "Can't find guest OS file {}"
    /\ no_downloads
    /\ available_guests[CurrentGuest].url # None
    /\ manifest # <<>>

----------------------------------------------------------------------------
C5_ExistingUntouched ==
    \A l \in GuestLabels :
      guest_file[l] # "absent" =>
         /\ guest_file'[l] = guest_file[l]
         /\ fetches'[l] <= fetches[l]

C5_SavedNotRefetched ==
    \A l \in saved : fetches[l] = 0 /\ guest_file[l] = "fetched"

(* C5: a guest whose path exists is left alone: nothing is fetched for it  *)
(* and its file is not created, truncated or rewritten; a run after a run  *)
(* that fetched and saved a guest fetches nothing for that guest.          *)
C5_ExistingGuestLeftAlone == [](C5_SavedNotRefetched) /\ [][C5_ExistingUntouched]_vars

C5_Witness ==
    /\ run = 2
    /\ \E k \in 1..Len(manifest) :
         /\ manifest[k].kind = "GuestOS"
         /\ manifest[k].name[1] \in saved
         /\ fetches[manifest[k].name[1]] = 0

----------------------------------------------------------------------------
\* the service the last step loaded, or tried to load
LoadedService == services_to_include[IF io.ok THEN svc_i - 1 ELSE svc_i]

(* C6: the path a service's bytes are loaded from ends with the service's  *)
(* name, whatever the settings, and the quality segment stands right       *)
(* before the name exactly when a quality is set.                          *)
C6_ServicePathEndsWithName ==
    io.op = "load_service" =>
       /\ Last(io.path) = Seg(LoadedService)
       /\ quality # None <=> (\E q \in Qualities : io.path[Len(io.path) - 1] = Seg(q))

----------------------------------------------------------------------------
\* does the path hold the target architecture as its segment under target/?
HasArchSegment(path) ==
    /\ target_arch # None
    /\ Len(path) >= 3
    /\ path[3] = target_arch[1]

(* C7: the path of a service holds the target-architecture segment under   *)
(* target/ exactly when a target architecture is set and a directory of    *)
(* that name exists under target/; a non-directory entry of that name does *)
(* not count.                                                              *)
C7_ArchSegmentIffDirectory ==
    io.op = "load_service" =>
       (HasArchSegment(io.path) <=> (target_arch # None /\ io.arch = "dir"))

----------------------------------------------------------------------------
\* is tok a substring of cs?
Contains(cs, tok) ==
    \E i \in 0..(Len(cs) - Len(tok)) : \A j \in 1..Len(tok) : cs[i + j] = tok[j]

(* C8: get_base_arch returns one of riscv, aarch64, arm, powerpc64, x86_64 *)
(* exactly when the target string contains one of them, and the token it   *)
(* returns is one the string contains, whatever surrounds it; for any      *)
(* other string it returns None, no architecture banner is added and the   *)
(* build goes on.                                                          *)
C8_BaseArch ==
    LET cs == Chars(target_arch[1])
        r == get_base_arch(target_arch[1])
        found == {k \in 1..Len(ArchChars) : Contains(cs, ArchChars[k])}
    IN  /\ r # None <=> found # {}
        /\ r # None => \E k \in found : r[1] = ArchNames[k]
        /\ r = None =>
              /\ ObjectsOf("BootMsg", 1) = {}
              /\ ~(pc = "aborted" /\ diag.at = "banner_arch")
              /\ pc \notin {"banners", "banner_arch"} =>
                    (pc = "aborted" => diag.at = "banner_welcome")

C8_Witness ==
    /\ get_base_arch(target_arch[1]) = Some("arm")
    /\ ~MatchAt(Chars(target_arch[1]), 1, ArchChars[3])
    /\ Len(manifest) = 2
    /\ manifest[1].name = <<"arm", ".txt">>

----------------------------------------------------------------------------
(* C9: the architecture-specific banner is optional: it is included when   *)
(* its file is present, and when the file is absent the build does not     *)
(* abort but goes on without an architecture banner.                       *)
C9_ArchBannerOptional ==
    (io.op = "load_banner" /\ Len(io.path) = 2) =>
       /\ io.entry = "file" => ObjectsOf("BootMsg", 1) # {}
       /\ io.entry = "absent" => pc # "aborted" /\ ObjectsOf("BootMsg", 1) = {}

----------------------------------------------------------------------------
(* C10: nothing listed is silently left out: every name of                 *)
(* services.include the loop has passed has exactly one SystemService      *)
(* object, every guest label the loop has passed has exactly one GuestOS   *)
(* object (otherwise the build has aborted), and a label missing from the  *)
(* guest table is reported fatally with the label and the target.          *)
C10_NoSilentOmission ==
    /\ \A i \in 1..Len(services_to_include) :
         i < svc_i => Cardinality(ObjectsOf("SystemService", i)) = 1
    /\ \A i \in 1..Len(targets_guests) :
         i < guest_i => Cardinality(ObjectsOf("GuestOS", i)) = 1
    /\ pc \in {"fetch", "save", "include"} => CurrentGuest \in DOMAIN available_guests
    /\ (pc = "aborted" /\ diag.at = "guest_loop" /\ CurrentGuest \notin DOMAIN available_guests) =>
          /\ Names(diag.args, Seg(CurrentGuest))
          /\ Names(diag.args, target_arch[1])

----------------------------------------------------------------------------
\* the operations main() does on a guest's directory, file or URL
GuestOps == {"create_dir_all", "exists", "get", "create", "unwrap", "copy", "load_guest"}

\* the steps that only the guests loop reaches
GuestSteps == {"guest_loop", "fetch", "save", "include"}

(* C11: with --skip-services the manifest never holds a SystemService      *)
(* object and no service file is read; with --skip-guests it never holds a *)
(* GuestOS object, no guest directory is created and nothing is fetched;   *)
(* with --skip-downloads nothing is ever fetched.                          *)
C11_SkipFlags ==
    /\ no_services =>
          /\ \A k \in 1..Len(manifest) : manifest[k].kind # "SystemService"
          /\ io.op \notin {"load_service", "skip_service"}
          /\ pc # "service_loop"
    /\ no_guests =>
          /\ \A k \in 1..Len(manifest) : manifest[k].kind # "GuestOS"
          /\ mkdirs = {}
          /\ \A l \in GuestLabels : fetches[l] = 0
          /\ io.op \notin GuestOps
          /\ pc \notin GuestSteps
    /\ no_downloads =>
          /\ \A l \in GuestLabels : fetches[l] = 0
          /\ io.op \notin {"get", "create", "unwrap", "copy"}
          /\ pc \notin {"fetch", "save"}
          /\ \A l \in GuestLabels : guest_file[l] \in {"absent", "user"}

C11_Witness ==
    /\ no_services
    /\ no_downloads
    /\ ~no_guests
    /\ pc = "done"
    /\ run = 2
    /\ \E k \in 1..Len(manifest) : manifest[k].kind = "GuestOS"
    /\ \E k \in 1..Len(manifest) : manifest[k].kind = "BootMsg"

----------------------------------------------------------------------------
(* C12: every acquisition failure for a guest (the request, the transfer   *)
(* of the body, the creation of the directory or of the file, the write)   *)
(* ends the build through fatal_error: one 'mkdmfs error' message that     *)
(* names the guest, then exit, with no GuestOS object appended for the     *)
(* guest and to_image never called.                                        *)
C12_AcquisitionFailureIsFatal ==
    (io.op \in {"create_dir_all", "get", "create", "unwrap", "copy"} /\ ~io.ok) =>
       /\ pc = "aborted"
       /\ diag.at \in GuestSteps
       /\ diag.text # "panic"
       /\ Names(diag.args, Seg(CurrentGuest))
       /\ ObjectsOf("GuestOS", guest_i) = {}
       /\ outfile = "untouched"

----------------------------------------------------------------------------
(* C13: whenever a build completes successfully, the payload of every      *)
(* GuestOS object is the complete image of that guest, the file the user   *)
(* placed or the whole body its URL served, also in a build run after a    *)
(* build that aborted while acquiring that guest.                          *)
C13_CompletePayloads ==
    pc = "done" =>
       \A k \in 1..Len(manifest) :
          manifest[k].kind = "GuestOS" => manifest[k].data \in {"user", "fetched"}

====
